---- MODULE Spec2Model ----
(***************************************************************************)
(* The membership engine of an ifrit node: the view (viewMap, liveMap,     *)
(* timeoutMap), the note / accusation algebra of evalNote, evalAccusation  *)
(* and evalCertificate, and the gossip handler Spread that merges a        *)
(* received message into the view.                                         *)
(***************************************************************************)
EXTENDS Integers, Sequences, FiniteSets, TLC

\* ------------------------------------------------------------------------
\* Bounds of the model
\* ------------------------------------------------------------------------
NumPeers == 4

MaxEpoch == 3

MaxBatch == 1

\* The number of rings (the bits of the mask of a note).
NumRings == 1

\* The ids of application data, and the greatest length of a reader.
NumData == 2

MaxBytes == 1

\* The greatest number of items of the longer messages.
BatchLen == 2

\* The ring ids run from 1 to MaxRingId; a ring slice takes at most MaxInserts inserts.
MaxRingId == 4

MaxInserts == 4

\* The pinger's server answers at most MaxServed requests.
MaxServed == 2

\* ------------------------------------------------------------------------
\* Identities, optional values
\* ------------------------------------------------------------------------
\* The id of the local node (n.peerId); the other ids are remote peers.
localId == 1

Ids == 1..NumPeers

RemoteIds == Ids \ {localId}

Epochs == 1..MaxEpoch

\* The three periodic tasks of the node.
Loops == {"gossipLoop", "monitor", "checkTimeouts"}

\* The goroutines that serve calls of Spread at the same time.
Handlers == {"h1", "h2"}

\* A nil pointer is the empty sequence, a non-nil pointer to x is <<x>>.
Nil == <<>>

Max(a, b) == IF a >= b THEN a ELSE b

VARIABLES viewMap, liveMap, timeoutMap, localEpoch, lastRebuttal, accepted, rejected,
          gossipDataMap, panicked, supplied, msg,
          exitChan, wg, startPc, shutPc, loopPc, done, serverDown, pingerDown,
          wgDone, lateCalls,
          thread, base,
          ring, lastInsert, inserts, removes,
          gossipDataMutex, protocolMutex, gossipTimeoutMutex, appendPc, roundPc,
          conn, servePc, serveExit, served, skipped

\* The application data of the node, with its histories.
dataVars == <<gossipDataMap, panicked, supplied, msg>>

\* The periodic tasks of the node and its shutdown, with their histories.
taskVars ==
  <<exitChan, wg, startPc, shutPc, loopPc, done, serverDown, pingerDown, wgDone, lateCalls>>

\* The handlers that run concurrently, with the node they started from.
handlerVars == <<thread, base>>

\* A ring slice of sort.go, with the last insert into it.
sortVars == <<ring, lastInsert, inserts, removes>>

\* The locks of the node.
lockVars == <<gossipDataMutex, protocolMutex, gossipTimeoutMutex, appendPc, roundPc>>

\* The pinger's receive server.
pingVars == <<conn, servePc, serveExit, served, skipped>>

vars ==
  <<viewMap, liveMap, timeoutMap, localEpoch, lastRebuttal, accepted, rejected,
    dataVars, taskVars, handlerVars, sortVars, lockVars, pingVars>>

\* viewMap, liveMap, timeoutMap: the maps of the view, keyed by peer id.
\* localEpoch: the epoch of the local note. lastRebuttal: the epoch of the
\* local note that protocol.Rebuttal gossiped last (0 when it never ran).
\* accepted and rejected are histories, recorded by SpecNotes and SpecRank:
\* accepted[k] is the greatest epoch of the notes evalNote has acted on for
\* peer k (0 when none), rejected[k] the accusers the rank check has turned
\* away since the stored accusation of k was first recorded.

\* gossipDataMap: the application data to gossip, keyed by id. panicked: a
\* goroutine has panicked and the process is gone. supplied[id]:
\* the bytes last handed to AppendGossipData for id (a history). msg: the
\* last snapshot collectGossipContent built.
\* exitChan, wg: the exit channel and the wait group of the node. startPc,
\* shutPc, loopPc: where Start, ShutDownNode and the three loops stand. done:
\* the http handler has sent on the done channel. serverDown, pingerDown:
\* server.ShutDown and pinger.shutdown have been called. wgDone[l]: the calls
\* of wg.Done by loop l, lateCalls[l]: the protocol calls loop l began after the
\* exit channel was closed (histories).
\* thread[i]: the merge that handler i runs and where it stands. base: the
\* node when the handlers began.

\* The node as one value, so that a handler is a function from node to node.
Node ==
  [viewMap |-> viewMap, liveMap |-> liveMap, timeoutMap |-> timeoutMap,
   localEpoch |-> localEpoch, lastRebuttal |-> lastRebuttal]

Install(s) ==
  /\ viewMap' = s.viewMap
  /\ liveMap' = s.liveMap
  /\ timeoutMap' = s.timeoutMap
  /\ localEpoch' = s.localEpoch
  /\ lastRebuttal' = s.lastRebuttal

\* ------------------------------------------------------------------------
\* Signatures
\* ------------------------------------------------------------------------
\* The bytes evalNote signs over: fmt.Sprintf("%v", &gossip.Note{Epoch, Id}).
NotePayload(epoch, id) == <<"note", epoch, id>>

\* The bytes evalAccusation signs over:
\* fmt.Sprintf("%v", &gossip.Accusation{Epoch, Accuser, Accused}).
AccusationPayload(epoch, accuser, accused) == <<"accusation", epoch, accuser, accused>>

\* A signature is the key that made it and the bytes it was made over; the
\* public key of peer k is k.
validateSignature(sign, b, publicKey) == sign.key = publicKey /\ sign.payload = b

\* The signature check of evalNote.
ValidNoteSignature(gossipNote) ==
  validateSignature(gossipNote.signature, NotePayload(gossipNote.epoch, gossipNote.id),
                    gossipNote.id)

\* The signature check of evalAccusation.
ValidAccusationSignature(a) ==
  validateSignature(a.signature, AccusationPayload(a.epoch, a.accuser, a.accused), a.accuser)

\* ------------------------------------------------------------------------
\* Peers and the view
\* ------------------------------------------------------------------------
\* newPeer(nil, cert): a peer with no note and no accusation.
newPeer == [recentNote |-> Nil, accusation |-> Nil]

getViewPeer(s, key) == s.viewMap[key]

viewPeerExist(s, key) == s.viewMap[key] # Nil

getLivePeer(s, key) == IF key \in s.liveMap THEN s.viewMap[key] ELSE Nil

addViewPeer(s, key) == [s EXCEPT !.viewMap[key] = <<newPeer>>]

addLivePeer(s, key) == [s EXCEPT !.liveMap = @ \cup {key}]

timerExist(s, key) == s.timeoutMap[key] # Nil

startTimer(s, key, newNote, observer) ==
  [s EXCEPT !.timeoutMap[key] = <<[observer |-> observer, lastNote |-> newNote]>>]

deleteTimeout(s, key) == [s EXCEPT !.timeoutMap[key] = Nil]

setNote(s, key, epoch) ==
  [s EXCEPT !.viewMap[key] = <<[@[1] EXCEPT !.recentNote = <<[epoch |-> epoch]>>]>>]

setAccusation(s, key, epoch, accuser) ==
  [s EXCEPT !.viewMap[key] =
              <<[@[1] EXCEPT !.accusation = <<[epoch |-> epoch, accuser |-> accuser]>>]>>]

removeAccusation(s, key) ==
  [s EXCEPT !.viewMap[key] = <<[@[1] EXCEPT !.accusation = Nil]>>]

\* ------------------------------------------------------------------------
\* The ring
\* ------------------------------------------------------------------------
\* The position of an id on the ring: a hash of the id, compared as a number.
Pos(id) == (id * 3) % 7

\* Forward distance on the ring from a to b.
Dist(a, b) == (Pos(b) - Pos(a) + 7) % 7

\* The ring holds the local node and every peer of the view.
RingMembers(s) == {localId} \cup {k \in Ids : s.viewMap[k] # Nil}

predecessor(M, k) ==
  IF M \ {k} = {} THEN k
  ELSE CHOOSE m \in M \ {k} : \A o \in M \ {k} : Dist(m, k) <= Dist(o, k)

successor(M, k) ==
  IF M \ {k} = {} THEN k
  ELSE CHOOSE m \in M \ {k} : \A o \in M \ {k} : Dist(k, m) <= Dist(k, o)

isPrev(s, p, other) == predecessor(RingMembers(s), other) = p

\* a is closer to the pivot than b (shorter forward distance to it).
isHigherRank(a, b, pivot) == Dist(a, pivot) < Dist(b, pivot)

shouldBeNeighbours(s, id) ==
  LET M == RingMembers(s) \cup {id}
  IN  predecessor(M, localId) = id \/ successor(M, localId) = id

findNeighbours(s, id) ==
  LET M == RingMembers(s) \cup {id}
  IN  {predecessor(M, id), successor(M, id)} \ {id}

\* ------------------------------------------------------------------------
\* evalNote
\* ------------------------------------------------------------------------
\* currNote == nil || currNote.epoch < epoch
NoteIsNewer(currNote, epoch) == currNote = Nil \/ currNote[1].epoch < epoch

NoteRebutsOrEqual(peerAccuse, epoch) == peerAccuse.epoch <= epoch

\* peerAccuse.epoch < epoch
NoteRebuts(peerAccuse, epoch) == peerAccuse.epoch < epoch

\* The rebuttal branch of evalNote.
RebutAccusation(s, peerKey) ==
  addLivePeer(removeAccusation(deleteTimeout(s, peerKey), peerKey), peerKey)

\* The branch of evalNote for a peer that is not accused.
StoreNote(s, peerKey, epoch) ==
  LET s1 == setNote(s, peerKey, epoch)
  IN  IF getLivePeer(s1, peerKey) = Nil THEN addLivePeer(s1, peerKey) ELSE s1

evalNote(s, gossipNote) ==
  LET epoch == gossipNote.epoch
      sign == gossipNote.signature
      id == gossipNote.id
      p == getViewPeer(s, id)
  IN  IF p = Nil THEN s
      ELSE IF ~validateSignature(sign, NotePayload(epoch, id), id) THEN s
      ELSE IF p[1].accusation = Nil
      THEN IF NoteIsNewer(p[1].recentNote, epoch) THEN StoreNote(s, id, epoch) ELSE s
      ELSE IF NoteRebuts(p[1].accusation[1], epoch) THEN RebutAccusation(s, id) ELSE s

\* ------------------------------------------------------------------------
\* evalCertificate
\* ------------------------------------------------------------------------
\* The address of the local node (n.localAddr): a peer's address is its id.
LocalAddr == localId

evalCertificate(s, cert) ==
  IF Len(cert.locality) = 0 \/ cert.locality[1] = LocalAddr THEN s
  ELSE IF cert.subjectKeyId = localId THEN s
  ELSE IF getViewPeer(s, cert.subjectKeyId) = Nil THEN addViewPeer(s, cert.subjectKeyId)
  ELSE s

\* ------------------------------------------------------------------------
\* evalAccusation
\* ------------------------------------------------------------------------
\* n.setEpoch(e): the epoch of the local note becomes e.
setEpoch(s, e) == [s EXCEPT !.localEpoch = e]

\* protocol.Rebuttal(n): the local note is gossiped at once.
Rebuttal(s) == [s EXCEPT !.lastRebuttal = s.localEpoch]

\* The branch of evalAccusation for an accusation that names the local node.
RebutSelf(s, epoch) == Rebuttal(setEpoch(s, epoch + 1))

\* peerNote == nil || epoch > peerNote.epoch
AccusationIsCurrent(peerNote, epoch) == peerNote = Nil \/ epoch > peerNote[1].epoch

OutranksAlways(accuser, peerAccusation, accused) == TRUE

\* peerAccusation == nil || n.isHigherRank(accuserPeer.peerId, peerAccusation.accuser)
OutranksStored(accuser, peerAccusation, accused) ==
  peerAccusation = Nil \/ isHigherRank(accuser, peerAccusation[1].accuser, accused)

AccuserAnyone(s, accuser, accused) == TRUE

\* n.isPrev(accuserPeer, p)
AccuserIsPrev(s, accuser, accused) == isPrev(s, accuser, accused)

RecordAccusationWithoutTimer(s, accusedKey, epoch, accuser) ==
  setAccusation(s, accusedKey, epoch, accuser)

\* The accusation is recorded on the peer and, if it has none, its timer is
\* started.
RecordAccusation(s, accusedKey, epoch, accuser) ==
  LET s1 == setAccusation(s, accusedKey, epoch, accuser)
  IN  IF ~timerExist(s1, accusedKey)
      THEN startTimer(s1, accusedKey, s1.viewMap[accusedKey][1].recentNote, accuser)
      ELSE s1

evalAccusation(s, a) ==
  LET sign == a.signature
      epoch == a.epoch
      accuser == a.accuser
      accused == a.accused
      p == getLivePeer(s, accused)
      accuserPeer == getLivePeer(s, accuser)
  IN  IF accused = localId THEN RebutSelf(s, epoch)
      ELSE IF p = Nil THEN s
      ELSE IF ~AccusationIsCurrent(p[1].recentNote, epoch) THEN s
      ELSE IF accuserPeer = Nil THEN s
      ELSE IF ~OutranksStored(accuser, p[1].accusation, accused) THEN s
      ELSE IF ~validateSignature(sign, AccusationPayload(epoch, accuser, accused), accuser)
      THEN s
      ELSE IF ~AccuserIsPrev(s, accuser, accused) THEN s
      ELSE RecordAccusation(s, accused, epoch, accuser)

\* ------------------------------------------------------------------------
\* Spread
\* ------------------------------------------------------------------------
RECURSIVE mergeNotesAborting(_, _)
mergeNotesAborting(s, notes) ==
  IF notes = <<>> THEN s
  ELSE IF Head(notes).id = localId THEN mergeNotesAborting(s, Tail(notes))
  ELSE IF evalNote(s, Head(notes)) = s THEN s
  ELSE mergeNotesAborting(evalNote(s, Head(notes)), Tail(notes))

RECURSIVE mergeNotes(_, _)
mergeNotes(s, notes) ==
  IF notes = <<>> THEN s
  ELSE IF Head(notes).id = localId THEN mergeNotes(s, Tail(notes))
  ELSE mergeNotes(evalNote(s, Head(notes)), Tail(notes))

RECURSIVE mergeAccusations(_, _)
mergeAccusations(s, accusations) ==
  IF accusations = <<>> THEN s
  ELSE mergeAccusations(evalAccusation(s, Head(accusations)), Tail(accusations))

\* The DER bytes of a certificate: its SubjectKeyId, then its Subject.Locality.
\* Bytes that are no certificate are the empty sequence.
Raw(cert) == <<cert.subjectKeyId>> \o cert.locality

\* x509.ParseCertificate: Nil when the bytes do not parse.
ParseCertificate(raw) ==
  IF Len(raw) = 0 THEN Nil
  ELSE <<[subjectKeyId |-> raw[1], locality |-> Tail(raw)]>>

RECURSIVE evalCertificates(_, _)
evalCertificates(s, certs) ==
  IF certs = <<>> THEN s
  ELSE IF ParseCertificate(Head(certs).raw) = Nil THEN evalCertificates(s, Tail(certs))
  ELSE evalCertificates(evalCertificate(s, ParseCertificate(Head(certs).raw)[1]), Tail(certs))

mergeCertificates(s, certs, remoteCert) ==
  evalCertificates(evalCertificate(s, remoteCert), certs)

AddCallerLiveOnly(s, key) ==
  IF ~viewPeerExist(s, key) THEN addLivePeer(s, key) ELSE s

\* if !n.viewPeerExist(key) { n.addViewPeer(p); n.addLivePeer(p) }
AddCaller(s, key) ==
  IF ~viewPeerExist(s, key) THEN addLivePeer(addViewPeer(s, key), key) ELSE s

\* The certificates of the reply to a caller that is not a neighbour.
Partners(s, key) == {k \in findNeighbours(s, key) : getLivePeer(s, k) # Nil}

NonNeighbourSpreadMerging(s, cert, args) ==
  mergeAccusations(
    mergeNotes(mergeCertificates(AddCaller(s, cert.subjectKeyId), args.certificates, cert),
               args.notes),
    args.accusations)

\* The branch of Spread for a caller that should not be a neighbour.
NonNeighbourSpread(s, cert, args) == AddCaller(s, cert.subjectKeyId)

NeighbourSpreadNotesFirst(s, cert, args) ==
  mergeAccusations(
    mergeCertificates(mergeNotes(AddCaller(s, cert.subjectKeyId), args.notes),
                      args.certificates, cert),
    args.accusations)

\* The branch of Spread for a neighbour: certificates, notes, accusations.
NeighbourSpread(s, cert, args) ==
  mergeAccusations(
    mergeNotes(mergeCertificates(AddCaller(s, cert.subjectKeyId), args.certificates, cert),
               args.notes),
    args.accusations)

\* The view after Spread has served an authenticated caller.
Spread(s, cert, args) ==
  IF ~shouldBeNeighbours(s, cert.subjectKeyId)
  THEN NonNeighbourSpread(s, cert, args)
  ELSE NeighbourSpread(s, cert, args)

\* The certificates of the reply of Spread to an authenticated caller.
SpreadReply(s, cert, args) ==
  IF ~shouldBeNeighbours(s, cert.subjectKeyId)
  THEN Partners(NonNeighbourSpread(s, cert, args), cert.subjectKeyId)
  ELSE {}

errNoPeerInCtx == "No peer information found in provided context"

errNoTLSInfo == "No TLS info provided in peer context"

errNoCert == "No local certificate present in request"

NoError == "nil"

AuthenticateWithoutTLSCheck(ctx) ==
  IF ~ctx.peer THEN errNoPeerInCtx
  ELSE IF Len(ctx.peerCertificates) < 1 THEN errNoCert
  ELSE NoError

\* The checks of Spread on the context of the call.
Authenticate(ctx) ==
  IF ~ctx.peer THEN errNoPeerInCtx
  ELSE IF ~ctx.tls THEN errNoTLSInfo
  ELSE IF Len(ctx.peerCertificates) < 1 THEN errNoCert
  ELSE NoError

\* The whole handler: the node it leaves.
SpreadHandler(s, ctx, args) ==
  IF Authenticate(ctx) # NoError THEN s
  ELSE Spread(s, ctx.peerCertificates[1], args)

\* The whole handler: the reply and the error it returns.
SpreadReturn(s, ctx, args) ==
  IF Authenticate(ctx) # NoError
  THEN [reply |-> Nil, err |-> Authenticate(ctx)]
  ELSE [reply |-> <<SpreadReply(s, ctx.peerCertificates[1], args)>>, err |-> NoError]

\* ------------------------------------------------------------------------
\* What can arrive from the network
\* ------------------------------------------------------------------------
OtherId(k) == (k % NumPeers) + 1

OtherEpoch(e) == (e % MaxEpoch) + 1

\* A certificate: its SubjectKeyId and its Subject.Locality (none, or the
\* address of the subject).
Certificates ==
  UNION {{[subjectKeyId |-> k, locality |-> <<>>], [subjectKeyId |-> k, locality |-> <<k>>]} :
           k \in Ids}

\* The certificates of a message: the bytes of a certificate, or bytes that
\* do not parse.
RawCertificates == {[raw |-> Raw(c)] : c \in Certificates} \cup {[raw |-> <<>>]}

\* The certificate of a caller that the TLS handshake has authenticated.
CallerCertificates == {[subjectKeyId |-> k, locality |-> <<k>>] : k \in RemoteIds}

\* The context of a call of Spread: whether it carries peer information,
\* whether that is TLS information, and the certificates of the peer.
Contexts ==
  {[peer |-> FALSE, tls |-> FALSE, peerCertificates |-> <<>>],
   [peer |-> TRUE, tls |-> FALSE, peerCertificates |-> <<>>],
   [peer |-> TRUE, tls |-> TRUE, peerCertificates |-> <<>>]}
  \cup {[peer |-> TRUE, tls |-> TRUE, peerCertificates |-> <<c>>] : c \in CallerCertificates}

\* The context of a call that the TLS handshake has authenticated as cert.
Authenticated(cert) == [peer |-> TRUE, tls |-> TRUE, peerCertificates |-> <<cert>>]

\* The masks of a note: one bit for each ring.
Masks == 0..(2^NumRings - 1)

\* The signatures a note for (id, epoch) can carry: the peer's own over the
\* note, another key's over the note, the peer's own over another epoch.
NoteSignatures(id, epoch) ==
  {[key |-> id, payload |-> NotePayload(epoch, id)],
   [key |-> OtherId(id), payload |-> NotePayload(epoch, id)],
   [key |-> id, payload |-> NotePayload(OtherEpoch(epoch), id)]}

Notes ==
  UNION {{[id |-> ke[1], epoch |-> ke[2], mask |-> ke[3], signature |-> sg] :
            sg \in NoteSignatures(ke[1], ke[2])} : ke \in Ids \X Epochs \X Masks}

\* The signatures an accusation can carry: the accuser's own, another key's.
AccusationSignatures(epoch, accuser, accused) ==
  {[key |-> accuser, payload |-> AccusationPayload(epoch, accuser, accused)],
   [key |-> OtherId(accuser), payload |-> AccusationPayload(epoch, accuser, accused)]}

Accusations ==
  UNION {{[accused |-> x[1], accuser |-> x[2], epoch |-> x[3], signature |-> sg] :
            sg \in AccusationSignatures(x[3], x[2], x[1])} : x \in Ids \X Ids \X Epochs}

\* The lengths of the three lists of a message of at most n items.
BatchLengths(n) == {x \in (0..n) \X (0..n) \X (0..n) : x[1] + x[2] + x[3] <= n}

\* The messages of at most n items drawn from the given sets.
MsgsOf(certs, notes, accusations, n) ==
  UNION {{[certificates |-> c, notes |-> m, accusations |-> a] :
            c \in [1..x[1] -> certs],
            m \in [1..x[2] -> notes],
            a \in [1..x[3] -> accusations]} : x \in BatchLengths(n)}

GossipMsgs == MsgsOf(RawCertificates, Notes, Accusations, MaxBatch)

\* The items of the longer messages: certificates that introduce a peer, do
\* not parse or name no address; notes of two peers and accusations of one of
\* them by two accusers, signed by the right key over the right bytes or by
\* another key.
BatchPeers == {2, 3}

BatchCertificates ==
  {[raw |-> <<>>]}
  \cup {[raw |-> Raw(c)] : c \in {d \in Certificates : d.subjectKeyId = 2}}

BatchNotes ==
  {n \in Notes : /\ n.id \in BatchPeers
                  /\ n.mask = 0
                  /\ n.signature.payload = NotePayload(n.epoch, n.id)}

BatchAccusations ==
  {a \in Accusations : a.accused = 3 /\ a.accuser \in {2, 4}}

BatchMsgs == MsgsOf(BatchCertificates, BatchNotes, BatchAccusations, BatchLen)

\* ------------------------------------------------------------------------
\* Application data
\* ------------------------------------------------------------------------
DataIds == 1..NumData

Bytes == {0, 1}

\* What an io.Reader still holds: a sequence of bytes.
Readers == UNION {[1..m -> Bytes] : m \in 0..MaxBytes}

errNoData == "Gossip data has zero length"

EOF == "EOF"

\* A map with no entries (make(map[string][]byte)); the map of a node that
\* NewNode has built is the nil map.
EmptyMap == <<[id \in DataIds |-> Nil]>>

\* data.Read(p): as many bytes as fit in p are copied; io.EOF when the reader
\* holds nothing.
Read(data, p) ==
  [n |-> IF Len(data) <= Len(p) THEN Len(data) ELSE Len(p),
   err |-> IF Len(data) = 0 THEN EOF ELSE NoError]

\* m[id] = val: a write to the nil map panics.
MapStore(m, id, val) ==
  IF m = Nil THEN [map |-> m, panic |-> TRUE]
  ELSE [map |-> <<[m[1] EXCEPT ![id] = <<val>>]>>, panic |-> FALSE]

\* _, exists := m[id]: a read of the nil map finds nothing.
MapHas(m, id) == m # Nil /\ m[1][id] # Nil

\* var bytes []byte: the buffer AppendGossipData reads into.
AppendBuffer == <<>>

\* AppendGossipData(id, data): the map it leaves, the error it returns, and
\* whether it panics.
AppendGossipData(m, id, data) ==
  IF Read(data, AppendBuffer).err # NoError
  THEN [map |-> m, err |-> Read(data, AppendBuffer).err, panic |-> FALSE]
  ELSE IF Read(data, AppendBuffer).n <= 0
  THEN [map |-> m, err |-> errNoData, panic |-> FALSE]
  ELSE [map |-> MapStore(m, id, AppendBuffer).map, err |-> NoError,
        panic |-> MapStore(m, id, AppendBuffer).panic]

\* addGossip(data, id): data is stored unless id has an entry.
addGossip(m, data, id) ==
  IF MapHas(m, id) THEN [map |-> m, panic |-> FALSE] ELSE MapStore(m, id, data)

\* getGossipData(): one Data for each entry of the map.
getGossipData(m) ==
  IF m = Nil THEN {}
  ELSE {[id |-> id, content |-> m[1][id][1]] : id \in {i \in DataIds : m[1][i] # Nil}}

\* collectGossipContent(): the certificate of every peer of the view, its
\* note and its accusation if it has them, the local note, and the data.
collectGossipContent(s, m) ==
  [certificates |-> {k \in Ids : s.viewMap[k] # Nil},
   notes |-> {[id |-> k, epoch |-> s.viewMap[k][1].recentNote[1].epoch] :
                k \in {j \in Ids : s.viewMap[j] # Nil /\ s.viewMap[j][1].recentNote # Nil}},
   accusations |-> {[accused |-> k, epoch |-> s.viewMap[k][1].accusation[1].epoch,
                     accuser |-> s.viewMap[k][1].accusation[1].accuser] :
                      k \in {j \in Ids : s.viewMap[j] # Nil /\ s.viewMap[j][1].accusation # Nil}},
   ownNote |-> s.localEpoch,
   data |-> getGossipData(m)]

\* ------------------------------------------------------------------------
\* The node
\* ------------------------------------------------------------------------
\* NewNode: the local note has epoch 1; every certificate the CA knows is
\* evaluated, and every peer of the resulting view is added to the live set.
Init ==
  \E known \in SUBSET RemoteIds :
    /\ viewMap = [k \in Ids |-> IF k \in known THEN <<newPeer>> ELSE Nil]
    /\ liveMap = known
    /\ timeoutMap = [k \in Ids |-> Nil]
    /\ localEpoch = 1
    /\ lastRebuttal = 0
    /\ accepted = [k \in Ids |-> 0]
    /\ rejected = [k \in Ids |-> {}]
    /\ gossipDataMap = Nil
    /\ panicked = FALSE
    /\ supplied = [id \in DataIds |-> Nil]
    /\ msg = Nil
    /\ exitChan = "open"
    /\ wg = 0
    /\ startPc = "idle"
    /\ shutPc = "idle"
    /\ loopPc = [l \in Loops |-> "none"]
    /\ done = FALSE
    /\ serverDown = FALSE
    /\ pingerDown = FALSE
    /\ wgDone = [l \in Loops |-> 0]
    /\ lateCalls = [l \in Loops |-> 0]
    /\ thread = [i \in Handlers |-> [pc |-> "idle", note |-> Nil, accusation |-> Nil]]
    /\ base = Nil
    /\ ring = <<>>
    /\ lastInsert = Nil
    /\ inserts = <<>>
    /\ removes = 0
    /\ gossipDataMutex = [writer |-> Nil, readers |-> {}]
    /\ protocolMutex = [writer |-> Nil, readers |-> {}]
    /\ gossipTimeoutMutex = [writer |-> Nil, readers |-> {}]
    /\ appendPc = "idle"
    /\ roundPc = "idle"
    /\ conn = "open"
    /\ servePc = "idle"
    /\ serveExit = "open"
    /\ served = 0
    /\ skipped = FALSE

\* A call that fails authentication returns before it reads the message: one
\* message stands for all of them.
EmptyMsg == [certificates |-> <<>>, notes |-> <<>>, accusations |-> <<>>]

SpreadCall ==
  \E ctx \in Contexts :
    \E args \in (IF Authenticate(ctx) = NoError THEN GossipMsgs ELSE {EmptyMsg}) :
      Install(SpreadHandler(Node, ctx, args)) /\ UNCHANGED <<accepted, rejected, dataVars, taskVars, handlerVars, sortVars, lockVars, pingVars>>

EvalNoteCall ==
  \E gossipNote \in Notes :
    Install(evalNote(Node, gossipNote)) /\ UNCHANGED <<accepted, rejected, dataVars, taskVars, handlerVars, sortVars, lockVars, pingVars>>

EvalAccusationCall ==
  \E a \in Accusations :
    Install(evalAccusation(Node, a)) /\ UNCHANGED <<accepted, rejected, dataVars, taskVars, handlerVars, sortVars, lockVars, pingVars>>

EvalCertificateCall ==
  \E cert \in Certificates :
    Install(evalCertificate(Node, cert)) /\ UNCHANGED <<accepted, rejected, dataVars, taskVars, handlerVars, sortVars, lockVars, pingVars>>

Next == EvalNoteCall \/ EvalAccusationCall \/ EvalCertificateCall \/ SpreadCall

Spec == Init /\ [][Next]_vars

\* ------------------------------------------------------------------------
\* The merges with the history of accepted notes
\* ------------------------------------------------------------------------
\* evalNote accepts a note when it acts on it: it stores the note, or takes
\* it for a rebuttal.
NoteAccepted(s, gossipNote) == evalNote(s, gossipNote) # s

RecordNoteCall ==
  \E gossipNote \in Notes :
    /\ Install(evalNote(Node, gossipNote))
    /\ accepted' = IF NoteAccepted(Node, gossipNote)
                   THEN [accepted EXCEPT ![gossipNote.id] = Max(@, gossipNote.epoch)]
                   ELSE accepted
    /\ UNCHANGED <<rejected, dataVars, taskVars, handlerVars, sortVars, lockVars, pingVars>>

NextNotes == RecordNoteCall \/ EvalAccusationCall \/ EvalCertificateCall

SpecNotes == Init /\ [][NextNotes]_vars

\* ------------------------------------------------------------------------
\* The merges with the history of rejected accusers
\* ------------------------------------------------------------------------
\* evalAccusation reaches its rank check and the check turns the accuser away.
RankRejects(s, a) ==
  LET p == getLivePeer(s, a.accused)
  IN  /\ a.accused # localId
      /\ p # Nil
      /\ AccusationIsCurrent(p[1].recentNote, a.epoch)
      /\ getLivePeer(s, a.accuser) # Nil
      /\ ~OutranksStored(a.accuser, p[1].accusation, a.accused)

RankAccusationCall ==
  \E a \in Accusations :
    /\ Install(evalAccusation(Node, a))
    /\ rejected' = IF RankRejects(Node, a)
                   THEN [rejected EXCEPT ![a.accused] = @ \cup {a.accuser}]
                   ELSE rejected
    /\ UNCHANGED <<accepted, dataVars, taskVars, handlerVars, sortVars, lockVars, pingVars>>

\* A rebuttal removes the stored accusation, and its history with it.
RankNoteCall ==
  \E gossipNote \in Notes :
    /\ Install(evalNote(Node, gossipNote))
    /\ rejected' = [k \in Ids |->
                      IF evalNote(Node, gossipNote).viewMap[k] # Nil
                         /\ evalNote(Node, gossipNote).viewMap[k][1].accusation = Nil
                      THEN {} ELSE rejected[k]]
    /\ UNCHANGED <<accepted, dataVars, taskVars, handlerVars, sortVars, lockVars, pingVars>>

NextRank == RankAccusationCall \/ RankNoteCall \/ EvalCertificateCall

SpecRank == Init /\ [][NextRank]_vars

\* ------------------------------------------------------------------------
\* The application data of a node
\* ------------------------------------------------------------------------
AppendGossipDataCall ==
  \E id \in DataIds, data \in Readers :
    /\ ~panicked
    /\ gossipDataMap' = AppendGossipData(gossipDataMap, id, data).map
    /\ panicked' = AppendGossipData(gossipDataMap, id, data).panic
    /\ supplied' = IF Len(data) >= 1 THEN [supplied EXCEPT ![id] = <<data>>] ELSE supplied
    /\ UNCHANGED <<viewMap, liveMap, timeoutMap, localEpoch, lastRebuttal, accepted, rejected,
                   msg, taskVars, handlerVars, sortVars, lockVars, pingVars>>

\* The gossip handler stores the data of a message it has merged.
AddGossipCall ==
  \E id \in DataIds, data \in Readers :
    /\ ~panicked
    /\ gossipDataMap' = addGossip(gossipDataMap, data, id).map
    /\ panicked' = addGossip(gossipDataMap, data, id).panic
    /\ UNCHANGED <<viewMap, liveMap, timeoutMap, localEpoch, lastRebuttal, accepted, rejected,
                   supplied, msg, taskVars, handlerVars, sortVars, lockVars, pingVars>>

\* The gossip loop builds the message of a round.
CollectGossipContentCall ==
  /\ ~panicked
  /\ msg' = <<collectGossipContent(Node, gossipDataMap)>>
  /\ UNCHANGED <<viewMap, liveMap, timeoutMap, localEpoch, lastRebuttal, accepted, rejected,
                 gossipDataMap, panicked, supplied, taskVars, handlerVars, sortVars, lockVars, pingVars>>

NextData == AppendGossipDataCall \/ AddGossipCall \/ CollectGossipContentCall

SpecData == Init /\ [][NextData]_vars

\* ------------------------------------------------------------------------
\* Start, the periodic tasks, and ShutDownNode
\* ------------------------------------------------------------------------
viewVars == <<viewMap, liveMap, timeoutMap, localEpoch, lastRebuttal, accepted, rejected>>

\* The order of the go statements of Start.
StartOrder == <<"gossipLoop", "monitor", "checkTimeouts">>

\* Start up to wg.Add: the protocol is set, the transports are started.
StartBegin ==
  /\ startPc = "idle"
  /\ startPc' = "add"
  /\ UNCHANGED <<viewVars, dataVars, handlerVars, sortVars, lockVars, pingVars, exitChan, wg, shutPc, loopPc, done,
                 serverDown, pingerDown, wgDone, lateCalls>>

\* n.wg.Add(3)
StartAdd ==
  /\ startPc = "add"
  /\ wg' = wg + 3
  /\ startPc' = "go1"
  /\ UNCHANGED <<viewVars, dataVars, handlerVars, sortVars, lockVars, pingVars, exitChan, shutPc, loopPc, done,
                 serverDown, pingerDown, wgDone, lateCalls>>

\* go n.gossipLoop(); go n.monitor(); go n.checkTimeouts(); go n.httpHandler(done)
StartGo ==
  \E i \in 1..3 :
    /\ startPc = IF i = 1 THEN "go1" ELSE IF i = 2 THEN "go2" ELSE "go3"
    /\ loopPc' = [loopPc EXCEPT ![StartOrder[i]] = "select"]
    /\ startPc' = IF i = 1 THEN "go2" ELSE IF i = 2 THEN "go3" ELSE "waitDone"
    /\ UNCHANGED <<viewVars, dataVars, handlerVars, sortVars, lockVars, pingVars, exitChan, wg, shutPc, done,
                   serverDown, pingerDown, wgDone, lateCalls>>

\* The http handler sends on the done channel.
HttpHandlerDone ==
  /\ startPc = "waitDone"
  /\ ~done
  /\ done' = TRUE
  /\ UNCHANGED <<viewVars, dataVars, handlerVars, sortVars, lockVars, pingVars, exitChan, wg, startPc, shutPc, loopPc,
                 serverDown, pingerDown, wgDone, lateCalls>>

\* <-done
StartReceiveDone ==
  /\ startPc = "waitDone"
  /\ done
  /\ startPc' = "waitExit"
  /\ UNCHANGED <<viewVars, dataVars, handlerVars, sortVars, lockVars, pingVars, exitChan, wg, shutPc, loopPc, done,
                 serverDown, pingerDown, wgDone, lateCalls>>

\* <-n.exitChan
StartReceiveExit ==
  /\ startPc = "waitExit"
  /\ exitChan = "closed"
  /\ startPc' = "serverShutDown"
  /\ UNCHANGED <<viewVars, dataVars, handlerVars, sortVars, lockVars, pingVars, exitChan, wg, shutPc, loopPc, done,
                 serverDown, pingerDown, wgDone, lateCalls>>

\* n.server.ShutDown()
StartServerShutDown ==
  /\ startPc = "serverShutDown"
  /\ serverDown' = TRUE
  /\ startPc' = "pingerShutdown"
  /\ UNCHANGED <<viewVars, dataVars, handlerVars, sortVars, lockVars, pingVars, exitChan, wg, shutPc, loopPc, done,
                 pingerDown, wgDone, lateCalls>>

\* n.pinger.shutdown()
StartPingerShutdown ==
  /\ startPc = "pingerShutdown"
  /\ pingerDown' = TRUE
  /\ startPc' = "returned"
  /\ UNCHANGED <<viewVars, dataVars, handlerVars, sortVars, lockVars, pingVars, exitChan, wg, shutPc, loopPc, done,
                 serverDown, wgDone, lateCalls>>

\* ShutDownNode up to close: the node leaves its rings.
ShutDownBegin ==
  /\ shutPc = "idle"
  /\ shutPc' = "close"
  /\ UNCHANGED <<viewVars, dataVars, handlerVars, sortVars, lockVars, pingVars, exitChan, wg, startPc, loopPc, done,
                 serverDown, pingerDown, wgDone, lateCalls>>

\* close(n.exitChan)
ShutDownClose ==
  /\ shutPc = "close"
  /\ exitChan' = "closed"
  /\ shutPc' = "wait"
  /\ UNCHANGED <<viewVars, dataVars, handlerVars, sortVars, lockVars, pingVars, wg, startPc, loopPc, done,
                 serverDown, pingerDown, wgDone, lateCalls>>

\* n.wg.Wait()
ShutDownWait ==
  /\ shutPc = "wait"
  /\ wg = 0
  /\ shutPc' = "returned"
  /\ UNCHANGED <<viewVars, dataVars, handlerVars, sortVars, lockVars, pingVars, exitChan, wg, startPc, loopPc, done,
                 serverDown, pingerDown, wgDone, lateCalls>>

SelectExitNever(l) == FALSE

\* case <-n.exitChan: the case is ready once the channel is closed.
SelectExit(l) == exitChan = "closed"

\* case <-time.After(d): the durations are positive, so that a select that
\* finds the exit channel closed takes that case, and a timer that fires
\* while the loop waits fires before the close.
SelectTimer(l) == exitChan = "open"

\* The exit case of the select of a loop: wg.Done and return.
LoopExit(l) ==
  /\ loopPc[l] = "select"
  /\ SelectExit(l)
  /\ wg' = wg - 1
  /\ wgDone' = [wgDone EXCEPT ![l] = @ + 1]
  /\ loopPc' = [loopPc EXCEPT ![l] = "returned"]
  /\ UNCHANGED <<viewVars, dataVars, handlerVars, sortVars, lockVars, pingVars, exitChan, startPc, shutPc, done,
                 serverDown, pingerDown, lateCalls>>

\* The timer case of the select of a loop: the call of the protocol begins.
LoopTick(l) ==
  /\ loopPc[l] = "select"
  /\ SelectTimer(l)
  /\ loopPc' = [loopPc EXCEPT ![l] = "call"]
  /\ lateCalls' = [lateCalls EXCEPT ![l] = IF exitChan = "closed" THEN @ + 1 ELSE @]
  /\ UNCHANGED <<viewVars, dataVars, handlerVars, sortVars, lockVars, pingVars, exitChan, wg, startPc, shutPc, done,
                 serverDown, pingerDown, wgDone>>

\* The call of the protocol (Gossip, Monitor, Timeouts) returns.
LoopCallReturns(l) ==
  /\ loopPc[l] = "call"
  /\ loopPc' = [loopPc EXCEPT ![l] = "select"]
  /\ UNCHANGED <<viewVars, dataVars, handlerVars, sortVars, lockVars, pingVars, exitChan, wg, startPc, shutPc, done,
                 serverDown, pingerDown, wgDone, lateCalls>>

gossipLoop == LoopExit("gossipLoop") \/ LoopTick("gossipLoop") \/ LoopCallReturns("gossipLoop")

monitor == LoopExit("monitor") \/ LoopTick("monitor") \/ LoopCallReturns("monitor")

checkTimeouts ==
  LoopExit("checkTimeouts") \/ LoopTick("checkTimeouts") \/ LoopCallReturns("checkTimeouts")

Start ==
  \/ StartBegin \/ StartAdd \/ StartGo \/ StartReceiveDone \/ StartReceiveExit
  \/ StartServerShutDown \/ StartPingerShutdown

ShutDownNode == ShutDownBegin \/ ShutDownClose \/ ShutDownWait

NextTasks == Start \/ HttpHandlerDone \/ ShutDownNode \/ gossipLoop \/ monitor \/ checkTimeouts

SpecTasks == Init /\ [][NextTasks]_vars

\* The goroutines are scheduled fairly and the calls of the protocol return:
\* a loop, Start once it has begun, and ShutDownNode once it has begun, take
\* the steps they can take.
FairTasks ==
  /\ \A l \in Loops : WF_vars(LoopExit(l)) /\ WF_vars(LoopCallReturns(l))
  /\ WF_vars(StartAdd \/ StartGo)
  /\ WF_vars(ShutDownClose \/ ShutDownWait)

SpecTasksFair == Init /\ [][NextTasks]_vars /\ FairTasks

\* ------------------------------------------------------------------------
\* Spread with messages of several items
\* ------------------------------------------------------------------------
SpreadBatchCall ==
  \E cert \in CallerCertificates, args \in BatchMsgs :
    /\ Install(SpreadHandler(Node, Authenticated(cert), args))
    /\ UNCHANGED <<accepted, rejected, dataVars, taskVars, handlerVars, sortVars, lockVars, pingVars>>

NextBatch == SpreadBatchCall

SpecBatch == Init /\ [][NextBatch]_vars

\* ------------------------------------------------------------------------
\* Handlers that merge at the same time
\* ------------------------------------------------------------------------
\* gRPC serves every call of Spread on a goroutine of its own. evalNote and
\* evalAccusation take no lock of their own: each call of a method of the
\* view or of a peer is one step, the reads with which a merge begins are
\* taken together as its first step.

\* What the handlers merge: validly signed notes of two peers, and validly
\* signed accusations of one of them.
HandlerItems ==
  {[note |-> <<n>>, accusation |-> Nil] : n \in {m \in BatchNotes : ValidNoteSignature(m)}}
  \cup {[note |-> Nil, accusation |-> <<a>>] :
           a \in {b \in BatchAccusations : ValidAccusationSignature(b)}}

\* The reads and tests of evalNote, up to its first write: where it goes on.
evalNoteChecks(s, gossipNote) ==
  LET p == getViewPeer(s, gossipNote.id)
  IN  IF p = Nil THEN "done"
      ELSE IF ~ValidNoteSignature(gossipNote) THEN "done"
      ELSE IF p[1].accusation = Nil
      THEN IF NoteIsNewer(p[1].recentNote, gossipNote.epoch) THEN "setNote" ELSE "done"
      ELSE IF NoteRebuts(p[1].accusation[1], gossipNote.epoch) THEN "deleteTimeout"
      ELSE "done"

\* The reads and tests of evalAccusation, up to its first write.
evalAccusationChecks(s, a) ==
  LET p == getLivePeer(s, a.accused)
  IN  IF a.accused = localId THEN "setEpoch"
      ELSE IF p = Nil THEN "done"
      ELSE IF ~AccusationIsCurrent(p[1].recentNote, a.epoch) THEN "done"
      ELSE IF getLivePeer(s, a.accuser) = Nil THEN "done"
      ELSE IF ~OutranksStored(a.accuser, p[1].accusation, a.accused) THEN "done"
      ELSE IF ~ValidAccusationSignature(a) THEN "done"
      ELSE IF ~AccuserIsPrev(s, a.accuser, a.accused) THEN "done"
      ELSE "setAccusation"

\* The handlers begin, each with one item to merge.
HandlersBegin ==
  /\ \A i \in Handlers : thread[i].pc \in {"idle", "done"}
  /\ \E items \in [Handlers -> HandlerItems] :
       thread' = [i \in Handlers |->
                    [pc |-> "check", note |-> items[i].note, accusation |-> items[i].accusation]]
  /\ base' = <<Node>>
  /\ UNCHANGED <<viewVars, dataVars, taskVars, sortVars, lockVars, pingVars>>

HandlerGoes(i, pc) == thread' = [thread EXCEPT ![i].pc = pc]

\* One step of evalNote on handler i.
evalNoteStep(i) ==
  LET gossipNote == thread[i].note[1]
      peerKey == gossipNote.id
  IN  /\ thread[i].note # Nil
      /\ \/ /\ thread[i].pc = "check"
            /\ HandlerGoes(i, evalNoteChecks(Node, gossipNote))
            /\ Install(Node)
         \/ /\ thread[i].pc = "setNote"
            /\ Install(setNote(Node, peerKey, gossipNote.epoch))
            /\ HandlerGoes(i, "getLivePeer")
         \/ /\ thread[i].pc = "getLivePeer"
            /\ Install(Node)
            /\ HandlerGoes(i, IF getLivePeer(Node, peerKey) = Nil THEN "addLivePeer" ELSE "done")
         \/ /\ thread[i].pc = "addLivePeer"
            /\ Install(addLivePeer(Node, peerKey))
            /\ HandlerGoes(i, "done")
         \/ /\ thread[i].pc = "deleteTimeout"
            /\ Install(deleteTimeout(Node, peerKey))
            /\ HandlerGoes(i, "removeAccusation")
         \/ /\ thread[i].pc = "removeAccusation"
            /\ Install(removeAccusation(Node, peerKey))
            /\ HandlerGoes(i, "addLivePeer")
      /\ UNCHANGED <<accepted, rejected, dataVars, taskVars, base, sortVars, lockVars, pingVars>>

\* One step of evalAccusation on handler i.
evalAccusationStep(i) ==
  LET a == thread[i].accusation[1]
  IN  /\ thread[i].accusation # Nil
      /\ \/ /\ thread[i].pc = "check"
            /\ HandlerGoes(i, evalAccusationChecks(Node, a))
            /\ Install(Node)
         \/ /\ thread[i].pc = "setEpoch"
            /\ Install(setEpoch(Node, a.epoch + 1))
            /\ HandlerGoes(i, "Rebuttal")
         \/ /\ thread[i].pc = "Rebuttal"
            /\ Install(Rebuttal(Node))
            /\ HandlerGoes(i, "done")
         \/ /\ thread[i].pc = "setAccusation"
            /\ Install(setAccusation(Node, a.accused, a.epoch, a.accuser))
            /\ HandlerGoes(i, "timerExist")
         \/ /\ thread[i].pc = "timerExist"
            /\ Install(Node)
            /\ HandlerGoes(i, IF timerExist(Node, a.accused) THEN "done" ELSE "startTimer")
         \/ /\ thread[i].pc = "startTimer"
            /\ Install(startTimer(Node, a.accused, Node.viewMap[a.accused][1].recentNote,
                                  a.accuser))
            /\ HandlerGoes(i, "done")
      /\ UNCHANGED <<accepted, rejected, dataVars, taskVars, base, sortVars, lockVars, pingVars>>

HandlerStep == \E i \in Handlers : evalNoteStep(i) \/ evalAccusationStep(i)

NextHandlers == HandlersBegin \/ HandlerStep

SpecHandlers == Init /\ [][NextHandlers]_vars

\* ------------------------------------------------------------------------
\* sort.go: the sorted slice of ring ids
\* ------------------------------------------------------------------------
\* A ring id is its position on the ring, a big integer.
RingIds == 1..MaxRingId

errIdNotFound == "ring id not found"

\* ringId.cmpId: -1, 0 or 1 as the receiver is below, equal to or above other.
cmpId(this, other) == IF this < other THEN -1 ELSE IF this > other THEN 1 ELSE 0

\* slice[i] of Go, with i counted from 0.
At(slice, i) == slice[i + 1]

\* An index expression slice[i] panics when i is outside 0..len(slice)-1.
InRange(slice, i) == i >= 0 /\ i < Len(slice)

\* append(slice, nil) followed by copy(slice[currIdx+1:], slice[currIdx:]):
\* the elements from currIdx on move one place up, slice[currIdx] keeps its
\* value.
ShiftUp(slice, currIdx) ==
  [i \in 1..(Len(slice) + 1) |-> IF i <= currIdx + 1 THEN slice[i] ELSE slice[i - 1]]

\* The loop of insert without the last comparison: newId always takes the
\* place of the element the search stopped at.
RECURSIVE insertLoopNoCompare(_, _, _, _)
insertLoopNoCompare(slice, newId, currIdx, maxIdx) ==
  IF currIdx >= maxIdx
  THEN IF ~InRange(slice, currIdx)
       THEN [slice |-> slice, idx |-> -1, panic |-> TRUE]
       ELSE [slice |-> [ShiftUp(slice, currIdx) EXCEPT ![currIdx + 1] = newId],
             idx |-> currIdx, panic |-> FALSE]
  ELSE LET mid == (currIdx + maxIdx) \div 2
       IN  IF cmpId(At(slice, mid), newId) = -1
           THEN insertLoopNoCompare(slice, newId, mid + 1, maxIdx)
           ELSE insertLoopNoCompare(slice, newId, currIdx, mid - 1)

\* The loop of insert: the slice after the insert and the index of newId, or
\* a panic when the loop indexes outside the slice.
RECURSIVE insertLoop(_, _, _, _)
insertLoop(slice, newId, currIdx, maxIdx) ==
  IF currIdx >= maxIdx
  THEN IF ~InRange(slice, currIdx)
       THEN [slice |-> slice, idx |-> -1, panic |-> TRUE]
       ELSE LET shifted == ShiftUp(slice, currIdx)
                at == IF cmpId(At(shifted, currIdx), newId) = -1
                      THEN currIdx + 1 ELSE currIdx
            IN  [slice |-> [shifted EXCEPT ![at + 1] = newId], idx |-> at,
                 panic |-> FALSE]
  ELSE LET mid == (currIdx + maxIdx) \div 2
       IN  IF cmpId(At(slice, mid), newId) = -1
           THEN insertLoop(slice, newId, mid + 1, maxIdx)
           ELSE insertLoop(slice, newId, currIdx, mid - 1)

insert(slice, newId) ==
  IF Len(slice) - 1 = -1
  THEN [slice |-> Append(slice, newId), idx |-> 0, panic |-> FALSE]
  ELSE insertLoop(slice, newId, 0, Len(slice) - 1)

\* The loop of search: the index of searchId and no error, or -1 and
\* errIdNotFound, or a panic when the loop indexes outside the slice.
RECURSIVE searchLoop(_, _, _, _)
searchLoop(slice, searchId, currIdx, maxIdx) ==
  IF currIdx >= maxIdx
  THEN IF ~InRange(slice, currIdx)
       THEN [idx |-> -1, err |-> NoError, panic |-> TRUE]
       ELSE IF cmpId(At(slice, currIdx), searchId) = 0
            THEN [idx |-> currIdx, err |-> NoError, panic |-> FALSE]
            ELSE [idx |-> -1, err |-> errIdNotFound, panic |-> FALSE]
  ELSE LET mid == (currIdx + maxIdx) \div 2
           cmp == cmpId(At(slice, mid), searchId)
       IN  IF cmp = -1 THEN searchLoop(slice, searchId, mid + 1, maxIdx)
           ELSE IF cmp = 1 THEN searchLoop(slice, searchId, currIdx, mid - 1)
           ELSE [idx |-> mid, err |-> NoError, panic |-> FALSE]

search(slice, searchId) == searchLoop(slice, searchId, 0, Len(slice) - 1)

\* The slice without its element at index idx.
DeleteAt(slice, idx) ==
  [i \in 1..(Len(slice) - 1) |-> IF i <= idx THEN slice[i] ELSE slice[i + 1]]

\* The ids of a slice.
Elems(slice) == {slice[i] : i \in 1..Len(slice)}

\* insert on the ring slice; the history keeps the ids inserted so far.
InsertCall ==
  /\ Len(inserts) < MaxInserts
  /\ \E newId \in RingIds :
       LET r == insert(ring, newId)
       IN  /\ ~r.panic
           /\ ring' = r.slice
           /\ lastInsert' = <<[id |-> newId, idx |-> r.idx]>>
           /\ inserts' = Append(inserts, newId)
  /\ UNCHANGED <<viewVars, dataVars, taskVars, handlerVars, lockVars, pingVars, removes>>

\* remove of an id that search finds: the element at its index is deleted.
RemoveCall ==
  /\ \E id \in RingIds :
       LET r == search(ring, id)
       IN  /\ ~r.panic
           /\ r.err = NoError
           /\ ring' = DeleteAt(ring, r.idx)
  /\ removes' = removes + 1
  /\ UNCHANGED <<viewVars, dataVars, taskVars, handlerVars, lockVars, pingVars,
                 lastInsert, inserts>>

NextSort == InsertCall \/ RemoveCall

SpecSort == Init /\ [][NextSort]_vars

\* ------------------------------------------------------------------------
\* udp.go: the pinger's receive server
\* ------------------------------------------------------------------------
\* servePc: where Serve is. conn: the UDP connection. serveExit: the exit
\* channel Serve was given. served: the requests answered. skipped: whether a
\* request has been skipped after an error.

\* The select that never finds the exit channel ready.
ServeExitNever == FALSE

\* The select of Serve takes the exit case when the channel is ready and the
\* default case otherwise.
ServeExitReady == serveExit = "closed"

\* ReadFrom on a closed connection returns an error at once.
ReadFromClosed == conn = "closed"

\* go n.pinger.serve() in Start.
ServeBegin ==
  /\ servePc = "idle"
  /\ servePc' = "select"
  /\ UNCHANGED <<viewVars, dataVars, taskVars, handlerVars, sortVars, lockVars,
                 conn, serveExit, served, skipped>>

\* select: return on the exit channel, or go on to read a request.
ServeSelect ==
  /\ servePc = "select"
  /\ servePc' = IF ServeExitReady THEN "returned" ELSE "ReadFrom"
  /\ UNCHANGED <<viewVars, dataVars, taskVars, handlerVars, sortVars, lockVars,
                 conn, serveExit, served, skipped>>

\* ReadFrom returns an error on a closed connection; the request is skipped.
ServeReadFromClosed ==
  /\ servePc = "ReadFrom"
  /\ ReadFromClosed
  /\ servePc' = "select"
  /\ skipped' = TRUE
  /\ UNCHANGED <<viewVars, dataVars, taskVars, handlerVars, sortVars, lockVars,
                 conn, serveExit, served>>

\* ReadFrom on an open connection blocks until a request arrives or the read
\* fails.
ServeReadFromOpen ==
  /\ servePc = "ReadFrom"
  /\ conn = "open"
  /\ \/ served < MaxServed /\ servePc' = "signMsg" /\ UNCHANGED skipped
     \/ servePc' = "select" /\ skipped' = TRUE
  /\ UNCHANGED <<viewVars, dataVars, taskVars, handlerVars, sortVars, lockVars,
                 conn, serveExit, served>>

\* signMsg signs the request or fails.
ServeSignMsg ==
  /\ servePc = "signMsg"
  /\ \/ servePc' = "WriteTo" /\ UNCHANGED skipped
     \/ servePc' = "select" /\ skipped' = TRUE
  /\ UNCHANGED <<viewVars, dataVars, taskVars, handlerVars, sortVars, lockVars,
                 conn, serveExit, served>>

\* WriteTo, under a write deadline, sends the response or fails; it fails on
\* a closed connection.
ServeWriteTo ==
  /\ servePc = "WriteTo"
  /\ \/ conn = "open" /\ served' = served + 1 /\ UNCHANGED skipped
     \/ skipped' = TRUE /\ UNCHANGED served
  /\ servePc' = "select"
  /\ UNCHANGED <<viewVars, dataVars, taskVars, handlerVars, sortVars, lockVars,
                 conn, serveExit>>

\* Server.Serve.
Serve ==
  \/ ServeBegin
  \/ ServeSelect
  \/ ServeReadFromClosed
  \/ ServeReadFromOpen
  \/ ServeSignMsg
  \/ ServeWriteTo

\* Server.Shutdown: the connection is closed.
Shutdown ==
  /\ conn = "open"
  /\ conn' = "closed"
  /\ UNCHANGED <<viewVars, dataVars, taskVars, handlerVars, sortVars, lockVars,
                 servePc, serveExit, served, skipped>>

\* The pinger signals the exit channel of Serve.
SignalServeExit ==
  /\ serveExit = "open"
  /\ serveExit' = "closed"
  /\ UNCHANGED <<viewVars, dataVars, taskVars, handlerVars, sortVars, lockVars,
                 conn, servePc, served, skipped>>

NextServe == Serve \/ Shutdown \/ SignalServeExit

SpecServe == Init /\ [][NextServe]_vars

\* The goroutine of Serve is scheduled: the select, the error return of
\* ReadFrom on a closed connection, signMsg and the write under its deadline
\* each complete.
FairServe ==
  /\ WF_vars(ServeBegin)
  /\ WF_vars(ServeSelect)
  /\ WF_vars(ServeReadFromClosed)
  /\ WF_vars(ServeSignMsg)
  /\ WF_vars(ServeWriteTo)

SpecServeFair == Init /\ [][NextServe]_vars /\ FairServe

\* ------------------------------------------------------------------------
\* The locks of the node
\* ------------------------------------------------------------------------
\* A sync.RWMutex: the goroutine that holds the write side, if any, and the
\* goroutines that hold the read side. appendPc: where the caller of
\* AppendGossipData is. roundPc: where a round of gossipLoop is.
Lockable(mu) == mu.writer = Nil /\ mu.readers = {}

RLockable(mu) == mu.writer = Nil

Lock(mu, t) == [mu EXCEPT !.writer = <<t>>]

Unlock(mu, t) == [mu EXCEPT !.writer = Nil]

RLock(mu, t) == [mu EXCEPT !.readers = @ \cup {t}]

RUnlock(mu, t) == [mu EXCEPT !.readers = @ \ {t}]

\* t holds a side of mu.
Holds(t, mu) == mu.writer = <<t>> \/ t \in mu.readers

\* AppendGossipData: n.gossipDataMutex.Lock() (the deferred Unlock runs when
\* the function returns), then data.Read is called.
AppendLock ==
  /\ appendPc = "idle"
  /\ ~panicked
  /\ Lockable(gossipDataMutex)
  /\ gossipDataMutex' = Lock(gossipDataMutex, "append")
  /\ appendPc' = "Read"
  /\ UNCHANGED <<viewVars, dataVars, taskVars, handlerVars, sortVars, pingVars,
                 protocolMutex, gossipTimeoutMutex, roundPc>>

\* data.Read returns, whenever the reader of the caller lets it; the rest of
\* AppendGossipData runs up to its return.
AppendRead ==
  /\ appendPc = "Read"
  /\ \E id \in DataIds, data \in Readers :
       /\ gossipDataMap' = AppendGossipData(gossipDataMap, id, data).map
       /\ panicked' = AppendGossipData(gossipDataMap, id, data).panic
       /\ supplied' = IF Len(data) >= 1 THEN [supplied EXCEPT ![id] = <<data>>] ELSE supplied
  /\ appendPc' = "return"
  /\ UNCHANGED <<viewVars, msg, taskVars, handlerVars, sortVars, pingVars,
                 gossipDataMutex, protocolMutex, gossipTimeoutMutex, roundPc>>

\* The deferred Unlock of AppendGossipData.
AppendUnlock ==
  /\ appendPc = "return"
  /\ gossipDataMutex' = Unlock(gossipDataMutex, "append")
  /\ appendPc' = "idle"
  /\ UNCHANGED <<viewVars, dataVars, taskVars, handlerVars, sortVars, pingVars,
                 protocolMutex, gossipTimeoutMutex, roundPc>>

\* getGossipTimeout, first half: the read lock is taken.
RoundGetGossipTimeout ==
  /\ roundPc = "idle"
  /\ RLockable(gossipTimeoutMutex)
  /\ gossipTimeoutMutex' = RLock(gossipTimeoutMutex, "round")
  /\ roundPc' = "getGossipTimeout"
  /\ UNCHANGED <<viewVars, dataVars, taskVars, handlerVars, sortVars, pingVars,
                 gossipDataMutex, protocolMutex, appendPc>>

\* getGossipTimeout returns (deferred RUnlock); the loop waits in its select.
RoundTimer ==
  /\ roundPc = "getGossipTimeout"
  /\ gossipTimeoutMutex' = RUnlock(gossipTimeoutMutex, "round")
  /\ roundPc' = "select"
  /\ UNCHANGED <<viewVars, dataVars, taskVars, handlerVars, sortVars, pingVars,
                 gossipDataMutex, protocolMutex, appendPc>>

\* The timer fires: getProtocol takes the read lock.
RoundGetProtocol ==
  /\ roundPc = "select"
  /\ RLockable(protocolMutex)
  /\ protocolMutex' = RLock(protocolMutex, "round")
  /\ roundPc' = "getProtocol"
  /\ UNCHANGED <<viewVars, dataVars, taskVars, handlerVars, sortVars, pingVars,
                 gossipDataMutex, gossipTimeoutMutex, appendPc>>

\* getProtocol returns (deferred RUnlock); Gossip(n) of the protocol starts.
RoundGossip ==
  /\ roundPc = "getProtocol"
  /\ protocolMutex' = RUnlock(protocolMutex, "round")
  /\ roundPc' = "Gossip"
  /\ UNCHANGED <<viewVars, dataVars, taskVars, handlerVars, sortVars, pingVars,
                 gossipDataMutex, gossipTimeoutMutex, appendPc>>

\* collectGossipContent reaches getGossipData, which takes the read lock.
RoundGetGossipData ==
  /\ roundPc = "Gossip"
  /\ ~panicked
  /\ RLockable(gossipDataMutex)
  /\ gossipDataMutex' = RLock(gossipDataMutex, "round")
  /\ roundPc' = "getGossipData"
  /\ UNCHANGED <<viewVars, dataVars, taskVars, handlerVars, sortVars, pingVars,
                 protocolMutex, gossipTimeoutMutex, appendPc>>

\* getGossipData returns (deferred RUnlock) and collectGossipContent returns
\* the message; the protocol sends it.
RoundCollected ==
  /\ roundPc = "getGossipData"
  /\ msg' = <<collectGossipContent(Node, gossipDataMap)>>
  /\ gossipDataMutex' = RUnlock(gossipDataMutex, "round")
  /\ roundPc' = "send"
  /\ UNCHANGED <<viewVars, gossipDataMap, panicked, supplied, taskVars, handlerVars,
                 sortVars, pingVars, protocolMutex, gossipTimeoutMutex, appendPc>>

\* The exchange with the gossip partner ends; so does the round.
RoundSent ==
  /\ roundPc = "send"
  /\ roundPc' = "idle"
  /\ UNCHANGED <<viewVars, dataVars, taskVars, handlerVars, sortVars, pingVars,
                 gossipDataMutex, protocolMutex, gossipTimeoutMutex, appendPc>>

AppendGossipDataSteps == AppendLock \/ AppendRead \/ AppendUnlock

GossipRound ==
  \/ RoundGetGossipTimeout
  \/ RoundTimer
  \/ RoundGetProtocol
  \/ RoundGossip
  \/ RoundGetGossipData
  \/ RoundCollected
  \/ RoundSent

NextLocks == AppendGossipDataSteps \/ GossipRound

SpecLocks == Init /\ [][NextLocks]_vars

\* ------------------------------------------------------------------------
\* Properties
\* ------------------------------------------------------------------------
HasAccusation(k) == viewMap[k] # Nil /\ viewMap[k][1].accusation # Nil

InView == {k \in Ids : viewMap[k] # Nil}

\* C1: no peer with a stored accusation, or with a timeout entry, is in the
\* live set.
C1_AccusedNotLive ==
  \A k \in Ids : (HasAccusation(k) \/ timeoutMap[k] # Nil) => k \notin liveMap

\* C2: a peer is in the live set only if evalNote has accepted a note for it.
C2_LiveOnlyAfterNote == \A k \in liveMap : accepted[k] > 0

\* C3: every peer of the live set is in the view.
C3_LiveSubsetOfView == liveMap \subseteq InView

\* A peer that evalNote has made live beside a peer that is in the view only.
C3_Witness ==
  \E k \in liveMap, j \in InView :
    /\ k \in InView
    /\ viewMap[k][1].recentNote # Nil
    /\ j \notin liveMap

\* The stored note of peer k is the note of epoch e (none when e = 0).
StoredNoteIs(k, e) ==
  viewMap[k][1].recentNote = (IF e = 0 THEN Nil ELSE <<[epoch |-> e]>>)

\* C4: the epoch of the stored note of a peer is the greatest epoch of the
\* notes accepted for it.
C4_StoredIsMaxAccepted == \A k \in InView : StoredNoteIs(k, accepted[k])

ValidNote(gossipNote) ==
  validateSignature(gossipNote.signature,
                    NotePayload(gossipNote.epoch, gossipNote.id), gossipNote.id)

\* The note is validly signed for a peer that is accused at a smaller epoch.
IsRebuttal(gossipNote) ==
  /\ HasAccusation(gossipNote.id)
  /\ ValidNote(gossipNote)
  /\ gossipNote.epoch > viewMap[gossipNote.id][1].accusation[1].epoch

\* C5: a validly signed note of an epoch above that of the stored accusation
\* leaves the peer with no accusation, with no timeout entry, and live; a note
\* of an epoch that is not above it leaves the accusation, the timeout map and
\* the live set as they were.
C5_Rebuttal ==
  \A gossipNote \in Notes :
    LET k == gossipNote.id
        t == evalNote(Node, gossipNote)
    IN  HasAccusation(k) =>
          /\ IsRebuttal(gossipNote) =>
               /\ t.viewMap[k][1].accusation = Nil
               /\ t.timeoutMap[k] = Nil
               /\ k \in t.liveMap
          /\ gossipNote.epoch <= viewMap[k][1].accusation[1].epoch =>
               /\ t.viewMap[k][1].accusation = viewMap[k][1].accusation
               /\ t.timeoutMap = timeoutMap
               /\ t.liveMap = liveMap

\* A peer with an accusation and a timeout entry, and a rebuttal that evalNote
\* takes: the accusation and the timeout entry go.
C5_Witness ==
  \E gossipNote \in Notes :
    /\ IsRebuttal(gossipNote)
    /\ timeoutMap[gossipNote.id] # Nil
    /\ viewMap[gossipNote.id][1].recentNote # Nil
    /\ evalNote(Node, gossipNote).viewMap[gossipNote.id][1].accusation = Nil
    /\ evalNote(Node, gossipNote).timeoutMap[gossipNote.id] = Nil

\* C6: after a rebuttal the stored note of the peer is the rebutting note.
C6_RebuttalStored ==
  [][\A gossipNote \in Notes :
       (IsRebuttal(gossipNote) /\ Install(evalNote(Node, gossipNote))) =>
         viewMap'[gossipNote.id][1].recentNote = <<[epoch |-> gossipNote.epoch]>>]_vars

\* C7: an accusation of epoch e that names the local node, whose epoch is c,
\* makes the local epoch max(c, e) + 1, runs the Rebuttal of the protocol, and
\* records no accusation and no timeout entry for the local id.
C7_SelfAccusation ==
  [][\A a \in Accusations :
       (a.accused = localId /\ Install(evalAccusation(Node, a))) =>
         /\ localEpoch' = Max(localEpoch, a.epoch) + 1
         /\ lastRebuttal' = localEpoch'
         /\ viewMap'[localId] = Nil
         /\ timeoutMap'[localId] = Nil]_vars

ValidAccusation(a) ==
  validateSignature(a.signature, AccusationPayload(a.epoch, a.accuser, a.accused), a.accuser)

\* C8: a validly signed accusation by the live predecessor of a live peer,
\* of the epoch of the stored note of that peer, is recorded.
C8_EqualEpochRecorded ==
  \A a \in Accusations :
    LET p == getLivePeer(Node, a.accused)
    IN  ( /\ a.accused # localId
          /\ p # Nil
          /\ p[1].recentNote # Nil
          /\ p[1].recentNote[1].epoch = a.epoch
          /\ getLivePeer(Node, a.accuser) # Nil
          /\ ValidAccusation(a)
          /\ isPrev(Node, a.accuser, a.accused)
          /\ (p[1].accusation = Nil
                \/ isHigherRank(a.accuser, p[1].accusation[1].accuser, a.accused)) )
        => evalAccusation(Node, a).viewMap[a.accused][1].accusation
             = <<[epoch |-> a.epoch, accuser |-> a.accuser]>>

\* C9: an accusation whose accuser is not the ring predecessor of the accused
\* changes neither the view (the accusations in it), nor the live set, nor
\* the timeout map.
C9_NotPredecessorNoChange ==
  \A a \in Accusations :
    ~isPrev(Node, a.accuser, a.accused) =>
      LET t == evalAccusation(Node, a)
      IN  /\ t.viewMap = viewMap
          /\ t.liveMap = liveMap
          /\ t.timeoutMap = timeoutMap

\* A validly signed, current accusation between two live peers that only the
\* predecessor check turns away.
C9_Witness ==
  \E a \in Accusations :
    LET p == getLivePeer(Node, a.accused)
    IN  /\ a.accused # localId
        /\ p # Nil
        /\ (p[1].recentNote = Nil \/ a.epoch > p[1].recentNote[1].epoch)
        /\ getLivePeer(Node, a.accuser) # Nil
        /\ p[1].accusation = Nil
        /\ ValidAccusation(a)
        /\ ~isPrev(Node, a.accuser, a.accused)
        /\ evalAccusation(Node, a) = Node

\* C10: a stored accusation is replaced only by one whose accuser is
\* higher-ranked than the stored accuser, an accuser that is not higher-ranked
\* changes nothing, and the stored accuser is ranked at least as high as every
\* accuser turned away for the same accused.
C10_RankOrder ==
  /\ \A a \in Accusations :
       LET k == a.accused
           t == evalAccusation(Node, a)
       IN  (k # localId /\ HasAccusation(k)) =>
             /\ t.viewMap[k][1].accusation # viewMap[k][1].accusation =>
                  /\ t.viewMap[k][1].accusation # Nil
                  /\ isHigherRank(t.viewMap[k][1].accusation[1].accuser,
                                  viewMap[k][1].accusation[1].accuser, k)
             /\ ~isHigherRank(a.accuser, viewMap[k][1].accusation[1].accuser, k) => t = Node
  /\ \A k \in Ids :
       HasAccusation(k) =>
         \A r \in rejected[k] : ~isHigherRank(r, viewMap[k][1].accusation[1].accuser, k)

\* An accusation that has replaced the first one recorded (whose accuser is
\* the observer of the timeout), with an accuser turned away for that peer.
C10_Witness ==
  \E k \in Ids :
    /\ HasAccusation(k)
    /\ rejected[k] # {}
    /\ timeoutMap[k] # Nil
    /\ timeoutMap[k][1].observer # viewMap[k][1].accusation[1].accuser

\* C11: a call of Spread by a peer that should not be a neighbour merges
\* nothing of its message: the caller is added to the view if it is unknown,
\* every other peer keeps its place in the view, its note and its accusation,
\* the timeout map and the local epoch are unchanged, and the reply carries
\* only certificates of the neighbours computed for the caller.
C11_NonNeighbourNoMerge ==
  \A cert \in CallerCertificates :
    ~shouldBeNeighbours(Node, cert.subjectKeyId) =>
      \A after \in {[Node EXCEPT !.viewMap[cert.subjectKeyId] =
                                    IF @ = Nil THEN <<newPeer>> ELSE @]},
         neighbours \in {findNeighbours(Node, cert.subjectKeyId)} :
        \A args \in GossipMsgs :
          /\ \A t \in {SpreadHandler(Node, Authenticated(cert), args)} :
               /\ t.viewMap = after.viewMap
               /\ t.liveMap \ {cert.subjectKeyId} = liveMap \ {cert.subjectKeyId}
               /\ t.timeoutMap = timeoutMap
               /\ t.localEpoch = localEpoch
          /\ \A r \in {SpreadReturn(Node, Authenticated(cert), args)} :
               /\ r.err = NoError
               /\ r.reply # Nil
               /\ r.reply[1] \subseteq neighbours

\* A node with a stored note, and a caller that is unknown and should not be a
\* neighbour, with a note in its message that evalNote would store: the caller enters the view, the note is
\* not merged, and the reply names a neighbour.
C11_Witness ==
  \E cert \in CallerCertificates, args \in GossipMsgs :
    /\ ~shouldBeNeighbours(Node, cert.subjectKeyId)
    /\ viewMap[cert.subjectKeyId] = Nil
    /\ \E j \in InView : viewMap[j][1].recentNote # Nil
    /\ Len(args.notes) = 1
    /\ args.notes[1].id # cert.subjectKeyId
    /\ evalNote(Node, args.notes[1]) # Node
    /\ SpreadHandler(Node, Authenticated(cert), args).viewMap[args.notes[1].id]
         = viewMap[args.notes[1].id]
    /\ SpreadHandler(Node, Authenticated(cert), args).viewMap[cert.subjectKeyId] # Nil
    /\ SpreadReturn(Node, Authenticated(cert), args).reply[1] # {}

\* C12: a call of Spread with no peer information in its context, with no TLS
\* information, or with no peer certificate returns errNoPeerInCtx,
\* errNoTLSInfo or errNoCert with a nil reply, and leaves the node as it was.
C12_AuthFailureNoChange ==
  \A ctx \in Contexts, args \in GossipMsgs :
    LET t == SpreadHandler(Node, ctx, args)
        r == SpreadReturn(Node, ctx, args)
    IN  /\ ~ctx.peer => (r.err = errNoPeerInCtx /\ r.reply = Nil /\ t = Node)
        /\ (ctx.peer /\ ~ctx.tls) => (r.err = errNoTLSInfo /\ r.reply = Nil /\ t = Node)
        /\ (ctx.peer /\ ctx.tls /\ ctx.peerCertificates = <<>>) =>
             (r.err = errNoCert /\ r.reply = Nil /\ t = Node)

\* A node with a stored accusation and a timeout entry, a message with a note
\* that evalNote would act on, and the three failing contexts: each call
\* returns its error and leaves the node as it was.
C12_Witness ==
  /\ \E k \in Ids : HasAccusation(k) /\ timeoutMap[k] # Nil
  /\ \E args \in GossipMsgs :
       /\ Len(args.notes) = 1
       /\ evalNote(Node, args.notes[1]) # Node
       /\ \A ctx \in Contexts :
            ctx.peerCertificates = <<>> =>
              /\ SpreadHandler(Node, ctx, args) = Node
              /\ SpreadReturn(Node, ctx, args).err
                   \in {errNoPeerInCtx, errNoTLSInfo, errNoCert}

\* C14: AppendGossipData(id, reader) with a reader that holds at least one
\* byte returns nil and leaves the bytes in gossipDataMap under id, and every
\* snapshot that collectGossipContent builds afterwards has a Data {id, bytes}
\* for them.
C14_AppendedDataGossiped ==
  /\ [](\A id \in DataIds, data \in Readers :
          Len(data) >= 1 => AppendGossipData(gossipDataMap, id, data).err = NoError)
  /\ [](\A id \in DataIds :
          supplied[id] # Nil =>
            (MapHas(gossipDataMap, id) /\ gossipDataMap[1][id] = supplied[id]))
  /\ [][msg' # msg =>
          \A id \in DataIds :
            supplied[id] # Nil => [id |-> id, content |-> supplied[id][1]] \in msg'[1].data]_vars

\* C15: server.ShutDown and pinger.shutdown are not called while a periodic
\* task still runs: once a transport is shut down, every loop has returned.
C15_TransportsAfterTasks ==
  (serverDown \/ pingerDown) => \A l \in Loops : loopPc[l] = "returned"

InvalidCertificate(c) ==
  \/ Len(c.raw) = 0
  \/ Len(c.raw) = 1
  \/ c.raw[1] = localId
  \/ c.raw[2] = LocalAddr

\* A note that is dropped by a node s: its peer is unknown, its signature is
\* bad, or its epoch is stale (not above the stored note of a peer that is
\* not accused, not above the accusation of a peer that is).
InvalidNote(s, n) ==
  \/ s.viewMap[n.id] = Nil
  \/ n.signature # [key |-> n.id, payload |-> NotePayload(n.epoch, n.id)]
  \/ /\ s.viewMap[n.id][1].accusation = Nil
     /\ s.viewMap[n.id][1].recentNote # Nil
     /\ n.epoch <= s.viewMap[n.id][1].recentNote[1].epoch
  \/ /\ s.viewMap[n.id][1].accusation # Nil
     /\ n.epoch <= s.viewMap[n.id][1].accusation[1].epoch

\* An accusation of a remote peer that is dropped by a node s: the accused or
\* the accuser is not a live peer, the signature is bad, the epoch is stale,
\* the accuser is not the predecessor, or a higher-ranked accuser is stored.
InvalidAccusation(s, a) ==
  /\ a.accused # localId
  /\ \/ a.accused \notin s.liveMap
     \/ a.accuser \notin s.liveMap
     \/ a.signature
          # [key |-> a.accuser, payload |-> AccusationPayload(a.epoch, a.accuser, a.accused)]
     \/ /\ s.viewMap[a.accused][1].recentNote # Nil
        /\ a.epoch <= s.viewMap[a.accused][1].recentNote[1].epoch
     \/ ~isPrev(s, a.accuser, a.accused)
     \/ /\ s.viewMap[a.accused][1].accusation # Nil
        /\ ~isHigherRank(a.accuser, s.viewMap[a.accused][1].accusation[1].accuser, a.accused)

ValidCertificatesOf(certs) == SelectSeq(certs, LAMBDA c : ~InvalidCertificate(c))

\* The notes of a batch without those that are invalid when their turn comes.
RECURSIVE ValidNotesOf(_, _)
ValidNotesOf(s, notes) ==
  IF notes = <<>> THEN <<>>
  ELSE IF InvalidNote(s, Head(notes)) THEN ValidNotesOf(s, Tail(notes))
  ELSE <<Head(notes)>> \o ValidNotesOf(evalNote(s, Head(notes)), Tail(notes))

RECURSIVE ValidAccusationsOf(_, _)
ValidAccusationsOf(s, accusations) ==
  IF accusations = <<>> THEN <<>>
  ELSE IF InvalidAccusation(s, Head(accusations)) THEN ValidAccusationsOf(s, Tail(accusations))
  ELSE <<Head(accusations)>>
         \o ValidAccusationsOf(evalAccusation(s, Head(accusations)), Tail(accusations))

\* The message without its invalid items, for a call of Spread by cert.
ValidItemsOf(s, cert, args) ==
  [certificates |-> ValidCertificatesOf(args.certificates),
   notes |->
     ValidNotesOf(mergeCertificates(AddCaller(s, cert.subjectKeyId), args.certificates, cert),
                  args.notes),
   accusations |->
     ValidAccusationsOf(
       mergeNotes(mergeCertificates(AddCaller(s, cert.subjectKeyId), args.certificates, cert),
                  args.notes),
       args.accusations)]

\* C13: the node after Spread has merged a message is the node after Spread
\* has merged the message without its invalid items, wherever they stand.
C13_InvalidItemsSkipped ==
  \A cert \in CallerCertificates, args \in BatchMsgs :
    Spread(Node, cert, args) = Spread(Node, cert, ValidItemsOf(Node, cert, args))

\* A node with a stored note, and a neighbour that calls with an invalid note
\* before a valid one, and with an invalid accusation before a valid one: the
\* valid one is merged.
C13_Witness ==
  /\ \E j \in InView : viewMap[j][1].recentNote # Nil
  /\ ~HasAccusation(3)
  /\ \E cert \in CallerCertificates :
       /\ shouldBeNeighbours(Node, cert.subjectKeyId)
       /\ \E args \in BatchMsgs :
            /\ Len(args.notes) = 2
            /\ Len(ValidItemsOf(Node, cert, args).notes) = 1
            /\ ValidItemsOf(Node, cert, args).notes[1] = args.notes[2]
            /\ Spread(Node, cert, args) # AddCaller(Node, cert.subjectKeyId)
       /\ \E more \in BatchMsgs :
            /\ Len(more.accusations) = 2
            /\ Len(ValidItemsOf(Node, cert, more).accusations) = 1
            /\ ValidItemsOf(Node, cert, more).accusations[1] = more.accusations[2]
            /\ Spread(Node, cert, more).viewMap[3][1].accusation # Nil

\* The greatest epoch of the validly signed notes of a batch for peer k
\* (0 when it has none).
RECURSIVE MaxValidEpoch(_, _)
MaxValidEpoch(notes, k) ==
  IF notes = <<>> THEN 0
  ELSE IF Head(notes).id = k /\ ValidNote(Head(notes))
  THEN Max(Head(notes).epoch, MaxValidEpoch(Tail(notes), k))
  ELSE MaxValidEpoch(Tail(notes), k)

\* The message has a certificate that introduces peer k.
Introduces(args, k) ==
  \E i \in 1..Len(args.certificates) : args.certificates[i].raw = <<k, k>>

\* The message has an accusation of peer k, and none of an epoch above e.
AccusedUpTo(args, k, e) ==
  /\ \E i \in 1..Len(args.accusations) : args.accusations[i].accused = k
  /\ \A i \in 1..Len(args.accusations) :
       args.accusations[i].accused = k => args.accusations[i].epoch <= e

\* C19: a call of Spread by a neighbour merges the certificates, then the
\* notes, then the accusations of its message: a validly signed note of a
\* peer that a certificate of the same message introduces is accepted (the
\* peer is in the view, live, with the note stored), and an accusation is
\* evaluated against the notes of the message (an accusation of an epoch
\* that is not above that of a validly signed note of the message for the
\* same peer, which has no accusation, is not recorded).
C19_MergeOrder ==
  \A cert \in CallerCertificates :
    shouldBeNeighbours(Node, cert.subjectKeyId) =>
      \A args \in BatchMsgs, k \in RemoteIds :
        \A t \in {Spread(Node, cert, args)} :
          /\ ( /\ viewMap[k] = Nil
               /\ Introduces(args, k)
               /\ MaxValidEpoch(args.notes, k) > 0 )
             => /\ t.viewMap[k] # Nil
                /\ t.viewMap[k][1].recentNote = <<[epoch |-> MaxValidEpoch(args.notes, k)]>>
                /\ k \in t.liveMap
          /\ ( /\ ~HasAccusation(k)
               /\ MaxValidEpoch(args.notes, k) > 0
               /\ AccusedUpTo(args, k, MaxValidEpoch(args.notes, k)) )
             => (t.viewMap[k] # Nil => t.viewMap[k][1].accusation = Nil)

\* A neighbour calls with the certificate and a note of a peer that is not
\* in the view, and with a newer note and an accusation of a live peer with a
\* stored note that evalAccusation would have recorded before the new note:
\* the first note is stored, the accusation is not recorded.
C19_Witness ==
  \E cert \in CallerCertificates :
    /\ shouldBeNeighbours(Node, cert.subjectKeyId)
    /\ \E args \in BatchMsgs, j \in RemoteIds \ {cert.subjectKeyId} :
         /\ viewMap[j] = Nil
         /\ Introduces(args, j)
         /\ MaxValidEpoch(args.notes, j) > 0
         /\ Spread(Node, cert, args).viewMap[j] # Nil
         /\ Spread(Node, cert, args).viewMap[j][1].recentNote # Nil
    /\ \E more \in BatchMsgs, k \in RemoteIds :
         /\ k \in liveMap
         /\ viewMap[k] # Nil
         /\ viewMap[k][1].recentNote # Nil
         /\ ~HasAccusation(k)
         /\ MaxValidEpoch(more.notes, k) > viewMap[k][1].recentNote[1].epoch
         /\ Len(more.accusations) = 1
         /\ AccusedUpTo(more, k, MaxValidEpoch(more.notes, k))
         /\ evalAccusation(AddCaller(Node, cert.subjectKeyId),
                           more.accusations[1]).viewMap[k][1].accusation # Nil
         /\ Spread(Node, cert, more).viewMap[k][1].accusation = Nil

C20_MaskIsSigned ==
  \A n1 \in Notes, n2 \in Notes :
    ( /\ n1.id = n2.id
      /\ n1.epoch = n2.epoch
      /\ n1.signature = n2.signature
      /\ n1.mask # n2.mask )
    => ~(NoteAccepted(Node, n1) /\ NoteAccepted(Node, n2))

\* The item of handler i, merged in one piece into node s.
MergeOf(s, i) ==
  IF thread[i].note # Nil THEN evalNote(s, thread[i].note[1])
  ELSE evalAccusation(s, thread[i].accusation[1])

\* C17: when the handlers that merged at the same time have finished, the
\* node is the one that their merges leave when they run one at a time, in
\* one order or the other.
C17_Linearizable ==
  (\A i \in Handlers : thread[i].pc = "done") =>
    \E i \in Handlers, j \in Handlers :
      i # j /\ Node = MergeOf(MergeOf(base[1], i), j)


\* ------------------------------------------------------------------------
\* The ring slice
\* ------------------------------------------------------------------------
\* The ids inserted so far are pairwise distinct.
DistinctInserts == \A i \in 1..Len(inserts), j \in 1..Len(inserts) : i # j => inserts[i] # inserts[j]

\* The slice is in strictly increasing cmpId order.
StrictlySorted(slice) == \A i \in 1..(Len(slice) - 1) : cmpId(slice[i], slice[i + 1]) = -1

\* C22: from an empty ring slice, after inserts of pairwise distinct ids (and
\* no remove) the slice is in strictly increasing cmpId order, is as long as
\* the number of inserts, and holds each inserted id exactly once.
C22_InsertKeepsOrder ==
  (removes = 0 /\ DistinctInserts) =>
    /\ StrictlySorted(ring)
    /\ Len(ring) = Len(inserts)
    /\ \A k \in 1..Len(inserts) :
         Cardinality({i \in 1..Len(ring) : ring[i] = inserts[k]}) = 1
    /\ Elems(ring) = {inserts[k] : k \in 1..Len(inserts)}

\* Four distinct ids were inserted, the last one of them between two others.
C22_Witness ==
  /\ removes = 0
  /\ DistinctInserts
  /\ Len(inserts) = 4
  /\ lastInsert # Nil
  /\ lastInsert[1].idx \in {1, 2}

\* C23: on a sorted ring slice, insert of an id the slice does not hold
\* returns the index at which search then finds the id, and search for an id
\* the slice does not hold (the empty slice included) returns -1 and
\* errIdNotFound without a panic.
C23_InsertThenSearch ==
  StrictlySorted(ring) =>
    \A id \in RingIds \ Elems(ring) :
      /\ LET r == insert(ring, id)
         IN  /\ ~r.panic
             /\ search(r.slice, id) = [idx |-> r.idx, err |-> NoError, panic |-> FALSE]
      /\ search(ring, id) = [idx |-> -1, err |-> errIdNotFound, panic |-> FALSE]


\* ------------------------------------------------------------------------
\* The pinger's receive server
\* ------------------------------------------------------------------------
\* C24: Serve returns only from its select with the exit channel signalled; a
\* failed read, signMsg or write takes it back to the select; and once the
\* exit channel is signalled and the connection closed, a running Serve
\* eventually returns.
C24_ServeReturnsOnExit ==
  /\ [][(servePc' = "returned" /\ servePc # "returned")
          => (servePc = "select" /\ serveExit = "closed")]_vars
  /\ [][(skipped' /\ ~skipped) => servePc' = "select"]_vars
  /\ ((serveExit = "closed" /\ conn = "closed" /\ servePc # "idle")
        ~> (servePc = "returned"))

\* Serve has answered a request after it skipped one, was then blocked in
\* ReadFrom with the exit channel signalled and the connection closed, and
\* has returned.
C24_Witness ==
  /\ servePc = "returned"
  /\ skipped
  /\ served > 0
  /\ conn = "closed"


\* ------------------------------------------------------------------------
\* The locks
\* ------------------------------------------------------------------------
\* C21: no lock is held by a goroutine while it reads from the reader of the
\* caller, runs the method of the protocol, or exchanges messages: the caller
\* of AppendGossipData does not hold the gossip-data lock in data.Read, and a
\* round holds no lock in Gossip(n) or while it sends.
C21_NoLockAcrossBlocking ==
  /\ appendPc = "Read" => ~Holds("append", gossipDataMutex)
  /\ roundPc \in {"Gossip", "send"} =>
       /\ ~Holds("round", protocolMutex)
       /\ ~Holds("round", gossipTimeoutMutex)
       /\ ~Holds("round", gossipDataMutex)
  /\ roundPc = "select" => ~Holds("round", gossipTimeoutMutex)

====
